---- MODULE Spec2Model ----
(***************************************************************************)
(* PilotListController (view_pilots.js): an AngularJS controller that      *)
(* fetches the pilot list with $http.get and holds two pagination fields.  *)
(*                                                                         *)
(* JavaScript values are modelled as tagged records, so that the number 50 *)
(* and the text '50', or an absent value and an empty array, are different *)
(* values of the model as they are different values of the program.        *)
(***************************************************************************)
EXTENDS Integers, Sequences, FiniteSets, TLC

\* ---------------------------------------------------------------- bounds
\* how many $http.get calls a behaviour may make (the counter is capped here)
MaxRequests == 3
\* the pages the view may select: 1..MaxPage
MaxPage == 3

\* ------------------------------------------------------ JavaScript values
JsUndefined == [type |-> "undefined"]
JsNumber(n) == [type |-> "number", num |-> n]
JsString(s) == [type |-> "string", text |-> s]
JsArray(s) == [type |-> "array", items |-> s]
JsObject(ks) == [type |-> "object", keys |-> ks]

\* the endpoint read at every call: urls.pilots_json
PilotsJsonUrl == "urls.pilots_json"

\* ------------------------------------------------- what the server may send
\* bodies that are a sequence of records (records are opaque: "a", "b", "c")
Payloads ==
  { <<>>, <<"a", "b">>, <<"b", "a">>, <<"a", "b", "c">> }

\* a 2xx body that parses as JSON but is not a sequence of records
MalformedBodies == { JsObject({"error"}) }

\* response.data of a 2xx response: $http hands over whatever the body parsed to
Bodies == { JsArray(s) : s \in Payloads } \cup MalformedBodies

\* the response objects $http settles a request with
Responses ==
  { [ok |-> TRUE, data |-> d] : d \in Bodies }
    \cup { [ok |-> FALSE, data |-> JsUndefined] }

VARIABLES
  pilots,        \* $scope.pilots
  currentPage,   \* $scope.currentPage
  pageSize,      \* $scope.pageSize
  inFlight,      \* requests handed to $http and not settled yet: [id, url]
  delivered,     \* the response whose .then callback is about to run, or NoResponse
  httpGets,      \* number of $http.get calls made so far
  refreshCalls,  \* number of times $scope.getData was invoked by its callers
  responses,     \* history: request id -> the response the transport settled it with
  log,           \* history: the callbacks that have run, in order: [id, fn]
  overlap,       \* history: <<i, j>> when request i was in flight as j was issued
  uncaught       \* whether an error has escaped a callback or the call site

vars ==
  << pilots, currentPage, pageSize, inFlight, delivered, httpGets,
     refreshCalls, responses, log, overlap, uncaught >>

NoResponse == [id |-> 0, ok |-> FALSE, data |-> JsUndefined]

InFlightIds == { r.id : r \in inFlight }

\* ------------------------------------------------------------ $http.get
\* Mutant of HttpGet: a new request aborts the ones still in flight.
HttpGet_Supersede(url) ==
  /\ httpGets' = httpGets + 1
  /\ inFlight' = { [id |-> httpGets + 1, url |-> url] }

\* $http.get(url).then(success, failure): one more request in flight, every
\* request already in flight stays there.
HttpGet(url) ==
  /\ httpGets' = httpGets + 1
  /\ inFlight' = inFlight \cup { [id |-> httpGets + 1, url |-> url] }

\* Mutant of getData: once a fetch has failed the controller fetches no more.
getData_Latched ==
  /\ \A k \in DOMAIN log : log[k].fn # "failure"
  /\ HttpGet(PilotsJsonUrl)
  /\ UNCHANGED << pilots, currentPage, pageSize, uncaught >>

\* Mutant of getData: the address depends on the page shown.
getData_Paged ==
  /\ HttpGet(IF currentPage = JsNumber(1)
               THEN PilotsJsonUrl
               ELSE "urls.pilots_json?page")
  /\ UNCHANGED << pilots, currentPage, pageSize, uncaught >>

\* $scope.getData = function () { $http.get(urls.pilots_json).then(...) }
getData ==
  /\ HttpGet(PilotsJsonUrl)
  /\ UNCHANGED << pilots, currentPage, pageSize, uncaught >>

\* ---------------------------------------------------------- construction
\* The controller function has run: currentPage = 1, pageSize = '50', and the
\* call of getData() has put request 1 in flight.  $scope.pilots is not
\* assigned by the constructor.
Init ==
  /\ pilots = JsUndefined
  /\ currentPage = JsNumber(1)
  /\ pageSize = JsString("50")
  /\ inFlight = { [id |-> 1, url |-> PilotsJsonUrl] }
  /\ delivered = NoResponse
  /\ httpGets = 1
  /\ refreshCalls = 1
  /\ responses = << >>
  /\ log = << >>
  /\ overlap = {}
  /\ uncaught = FALSE

\* --------------------------------------------------------------- actions
\* The view (a refresh button) invokes $scope.getData().
Refresh ==
  /\ delivered = NoResponse
  /\ httpGets < MaxRequests
  /\ refreshCalls' = refreshCalls + 1
  /\ getData
  /\ overlap' = overlap \cup { << i, httpGets' >> : i \in InFlightIds }
  /\ UNCHANGED << delivered, responses, log >>

\* The transport settles one request in flight, in any order, with any
\* response; the matching .then callback runs next, in the same digest.
Settle ==
  /\ delivered = NoResponse
  /\ \E r \in inFlight, resp \in Responses :
       /\ inFlight' = inFlight \ {r}
       /\ delivered' = [id |-> r.id, ok |-> resp.ok, data |-> resp.data]
       /\ responses' = responses @@ (r.id :> resp)
  /\ UNCHANGED << pilots, currentPage, pageSize, httpGets, refreshCalls,
                  log, overlap, uncaught >>

\* Mutant of SuccessCallback: the payload is appended to the list already held.
SuccessCallback_Merge ==
  /\ delivered # NoResponse
  /\ delivered.ok
  /\ pilots' = IF pilots.type = "array" /\ delivered.data.type = "array"
                 THEN JsArray(pilots.items \o delivered.data.items)
                 ELSE delivered.data
  /\ log' = Append(log, [id |-> delivered.id, fn |-> "success"])
  /\ delivered' = NoResponse
  /\ UNCHANGED << currentPage, pageSize, inFlight, httpGets, refreshCalls,
                  responses, overlap, uncaught >>

\* Mutant of SuccessCallback: the response of a request that is not the most
\* recently issued one is dropped as stale.
SuccessCallback_LatestOnly ==
  /\ delivered # NoResponse
  /\ delivered.ok
  /\ pilots' = IF delivered.id = httpGets THEN delivered.data ELSE pilots
  /\ log' = Append(log, [id |-> delivered.id, fn |-> "success"])
  /\ delivered' = NoResponse
  /\ UNCHANGED << currentPage, pageSize, inFlight, httpGets, refreshCalls,
                  responses, overlap, uncaught >>

\* Mutant of SuccessCallback: a new list sends the view back to the first page.
SuccessCallback_ResetPage ==
  /\ delivered # NoResponse
  /\ delivered.ok
  /\ pilots' = delivered.data
  /\ currentPage' = JsNumber(1)
  /\ log' = Append(log, [id |-> delivered.id, fn |-> "success"])
  /\ delivered' = NoResponse
  /\ UNCHANGED << pageSize, inFlight, httpGets, refreshCalls, responses,
                  overlap, uncaught >>

\* function(response) { $scope.pilots = response.data; }
SuccessCallback ==
  /\ delivered # NoResponse
  /\ delivered.ok
  /\ pilots' = delivered.data
  /\ log' = Append(log, [id |-> delivered.id, fn |-> "success"])
  /\ delivered' = NoResponse
  /\ UNCHANGED << currentPage, pageSize, inFlight, httpGets, refreshCalls,
                  responses, overlap, uncaught >>

\* Mutant of FailureCallback: the list is emptied when the fetch fails.
FailureCallback_Clear ==
  /\ delivered # NoResponse
  /\ ~delivered.ok
  /\ pilots' = JsArray(<< >>)
  /\ log' = Append(log, [id |-> delivered.id, fn |-> "failure"])
  /\ delivered' = NoResponse
  /\ UNCHANGED << currentPage, pageSize, inFlight, httpGets, refreshCalls,
                  responses, overlap, uncaught >>

\* Mutant of FailureCallback: a failed fetch is retried at once.
FailureCallback_Retry ==
  /\ delivered # NoResponse
  /\ ~delivered.ok
  /\ HttpGet(PilotsJsonUrl)
  /\ log' = Append(log, [id |-> delivered.id, fn |-> "failure"])
  /\ delivered' = NoResponse
  /\ UNCHANGED << pilots, currentPage, pageSize, refreshCalls, responses,
                  overlap, uncaught >>

\* function(response) { }
FailureCallback ==
  /\ delivered # NoResponse
  /\ ~delivered.ok
  /\ log' = Append(log, [id |-> delivered.id, fn |-> "failure"])
  /\ delivered' = NoResponse
  /\ UNCHANGED << pilots, currentPage, pageSize, inFlight, httpGets,
                  refreshCalls, responses, overlap, uncaught >>

\* Mutant of Watchers: the controller re-fetches when the page changes.
Watchers_Page == { "currentPage" }

\* The scope fields the controller watches ($scope.$watch): it registers none,
\* so the digest that follows a write of the view calls nothing of the controller.
Watchers == {}

\* The view's pagination control writes $scope.currentPage = p; the digest
\* then runs the controller's watchers of that field.
SetPage ==
  /\ delivered = NoResponse
  /\ \E p \in 1..MaxPage : currentPage' = JsNumber(p)
  /\ IF "currentPage" \in Watchers /\ currentPage' # currentPage
       THEN HttpGet(PilotsJsonUrl)
       ELSE UNCHANGED << inFlight, httpGets >>
  /\ UNCHANGED << pilots, pageSize, delivered, refreshCalls, responses, log,
                  overlap, uncaught >>

Next ==
  \/ Refresh
  \/ Settle
  \/ SuccessCallback
  \/ FailureCallback
  \/ SetPage

Spec == Init /\ [][Next]_vars

\* The transport settles every request in the end, and a callback that is
\* due runs (it runs in the digest of the response that settled the request).
FairSpec ==
  /\ Spec
  /\ WF_vars(Settle)
  /\ WF_vars(SuccessCallback)
  /\ WF_vars(FailureCallback)

\* ------------------------------------------------- reading the history
\* position in log of the callback that ran for request id, 0 if none has run
PosOf(id) ==
  IF \E k \in DOMAIN log : log[k].id = id
    THEN CHOOSE k \in DOMAIN log : log[k].id = id
    ELSE 0

\* position in log of the last success callback, 0 if none has run
LastSuccessIndex ==
  IF \E k \in DOMAIN log : log[k].fn = "success"
    THEN CHOOSE k \in DOMAIN log :
           /\ log[k].fn = "success"
           /\ \A m \in DOMAIN log : log[m].fn = "success" => m <= k
    ELSE 0

\* this step ran the callback f of some request
CallbackRan(f) ==
  /\ Len(log') = Len(log) + 1
  /\ log'[Len(log')].fn = f

\* the request whose callback this step ran
SettledId == log'[Len(log')].id

\* ------------------------------------------------------------------ C1
\* C1: in every state after initialize in which no fetch callback has run yet,
\* pilots is the empty array (a defined value), currentPage is the number 1
\* and pageSize is the number 50.
C1_InitialState ==
  log = << >> =>
    /\ pilots = JsArray(<< >>)
    /\ currentPage = JsNumber(1)
    /\ pageSize = JsNumber(50)

\* ------------------------------------------------------------------ C2
\* C2: whatever pilots held before, the success callback of a request that the
\* transport resolved with the sequence s leaves pilots equal to s: the same
\* elements in the same order, nothing merged with the prior content.
C2_SuccessReplaces ==
  [][ \A s \in Payloads :
        (CallbackRan("success") /\ responses[SettledId].data = JsArray(s))
          => pilots' = JsArray(s) ]_vars

\* a non-empty list has been replaced by the empty payload of a later success
C2_Witness ==
  /\ Len(log) = 2
  /\ log[1].fn = "success"
  /\ log[2].fn = "success"
  /\ responses[log[1].id].data = JsArray(<< "a", "b", "c" >>)
  /\ responses[log[2].id].data = JsArray(<< >>)
  /\ pilots = JsArray(<< >>)

C4_VisibleCollection ==
  IF LastSuccessIndex = 0
    THEN pilots = JsArray(<< >>)
    ELSE /\ pilots = responses[log[LastSuccessIndex].id].data
         /\ log[LastSuccessIndex].id \notin InFlightIds

\* ------------------------------------------------------------------ C5
\* C5: when request j was issued while request i was in flight and both have
\* had their success callback run (and no later success followed), pilots is
\* the payload of whichever of the two had its callback run last, also when
\* that is the earlier-issued request i.
C5_LastResolvedWins ==
  \A p \in overlap :
    LET i == p[1]
        j == p[2]
        last == IF PosOf(i) > PosOf(j) THEN i ELSE j
    IN  ( /\ PosOf(i) > 0 /\ log[PosOf(i)].fn = "success"
          /\ PosOf(j) > 0 /\ log[PosOf(j)].fn = "success"
          /\ LastSuccessIndex = PosOf(last) )
          => pilots = responses[last].data

\* request 1 resolved after request 2, which was issued while 1 was in flight:
\* pilots holds the payload of request 1, the older one
C5_Witness ==
  /\ << 1, 2 >> \in overlap
  /\ Len(log) = 2
  /\ log[1] = [id |-> 2, fn |-> "success"]
  /\ log[2] = [id |-> 1, fn |-> "success"]
  /\ responses[1].data = JsArray(<< "a", "b" >>)
  /\ responses[2].data = JsArray(<< "b", "a" >>)
  /\ pilots = JsArray(<< "a", "b" >>)

\* ------------------------------------------------------------------ C6
\* C6: a step that changes currentPage sets it to the page p the view chose
\* and leaves pilots, pageSize and the requests in flight as they were; it
\* issues no request, however many are in flight.
C6_SetPageFrame ==
  [][ currentPage' # currentPage =>
        /\ currentPage' \in { JsNumber(p) : p \in 1..MaxPage }
        /\ pilots' = pilots
        /\ pageSize' = pageSize
        /\ inFlight' = inFlight
        /\ httpGets' = httpGets ]_vars

\* page 3 selected while two requests are in flight and a list is held
C6_Witness ==
  /\ currentPage = JsNumber(3)
  /\ Cardinality(inFlight) = 2
  /\ pilots = JsArray(<< "a", "b", "c" >>)
  /\ httpGets = 3

\* ------------------------------------------------------------------ C7
\* C7: the number of GET requests issued equals the number of invocations of
\* getData (the one of the constructor included), and every request issued is
\* either in flight or settled: no callback issues a request of its own.
C7_OneGetPerRefresh ==
  /\ httpGets = refreshCalls
  /\ httpGets = Cardinality(inFlight) + Cardinality(DOMAIN responses)

\* three invocations, three requests, all settled, failures and a success among them
C7_Witness ==
  /\ refreshCalls = 3
  /\ httpGets = 3
  /\ Len(log) = 3
  /\ log[1].fn = "failure"
  /\ log[2].fn = "success"
  /\ log[3].fn = "failure"

\* ------------------------------------------------------------------ C8
\* C8: a response whose body is not a sequence of records is handled as a
\* failure: the failure callback runs for it and pilots never takes the
\* malformed value.
C8_MalformedIsFailure ==
  /\ pilots \notin MalformedBodies
  /\ \A k \in DOMAIN log :
       responses[log[k].id].data \in MalformedBodies => log[k].fn = "failure"

\* ------------------------------------------------------------------ C9
\* C9: pageSize is a number from initialization onward, and before any
\* callback has run it is the number 50, not the text '50'.
C9_PageSizeNumeric ==
  /\ pageSize.type = "number"
  /\ log = << >> => pageSize = JsNumber(50)

\* ----------------------------------------------------------------- C10
\* every request issued is in flight or being delivered and has had no
\* callback run, or is settled and has had exactly one, the one that matches
\* its response
ExactlyOneCallback ==
  \A id \in 1..httpGets :
    LET n == Cardinality({ k \in DOMAIN log : log[k].id = id })
    IN  IF id \in InFlightIds \/ delivered.id = id
          THEN n = 0
          ELSE /\ n = 1
               /\ log[PosOf(id)].fn =
                    IF responses[id].ok THEN "success" ELSE "failure"

\* C10: an invocation of getData with k requests in flight leaves those k in
\* flight and adds exactly one; no request is cancelled or dropped, and each
\* request has exactly one of its two callbacks run once it settles.
C10_NoCancellation ==
  [][ /\ refreshCalls' # refreshCalls =>
           /\ inFlight \subseteq inFlight'
           /\ Cardinality(inFlight') = Cardinality(inFlight) + 1
      /\ ExactlyOneCallback
      /\ ExactlyOneCallback' ]_vars

\* getData was invoked with one and then with two requests in flight; one of
\* the three has settled since and its callback has run
C10_Witness ==
  /\ overlap = { << 1, 2 >>, << 1, 3 >>, << 2, 3 >> }
  /\ Cardinality(inFlight) = 2
  /\ Len(log) = 1
  /\ delivered = NoResponse

\* ----------------------------------------------------------------- C11
\* C11: an invocation of getData, a success callback (whatever the size of
\* the new list, also one shorter than (currentPage-1)*pageSize) and a
\* failure callback all leave currentPage and pageSize as they were.
C11_CoreKeepsPagination ==
  [][ ( \/ refreshCalls' # refreshCalls
        \/ CallbackRan("success")
        \/ CallbackRan("failure") )
        => (currentPage' = currentPage /\ pageSize' = pageSize) ]_vars

\* page 3 is still selected after a failure, a second getData and a success
\* that brought an empty list
C11_Witness ==
  /\ refreshCalls = 2
  /\ Len(log) = 2
  /\ log[1].fn = "failure"
  /\ log[2].fn = "success"
  /\ responses[log[2].id].data = JsArray(<< >>)
  /\ pilots = JsArray(<< >>)
  /\ currentPage = JsNumber(3)

\* ----------------------------------------------------------------- C12
\* C12: failures never disable the controller: whenever no callback is about
\* to run (and the model's cap on requests is not reached) getData can be
\* invoked, whatever the number of failures so far; and when a request j
\* issued after the failure of a request i resolves successfully, its success
\* callback leaves pilots equal to its payload.
C12_FailureNeverDisables ==
  /\ (delivered = NoResponse /\ httpGets < MaxRequests) => ENABLED Refresh
  /\ \A i, j \in 1..httpGets :
       ( /\ i < j
         /\ << i, j >> \notin overlap
         /\ PosOf(i) > 0
         /\ log[PosOf(i)].fn = "failure"
         /\ PosOf(j) = Len(log)
         /\ log[PosOf(j)].fn = "success" )
         => pilots = responses[j].data

\* two fetches failed one after the other, a third one issued after both
\* succeeded with [a, b]
C12_Witness ==
  /\ overlap = {}
  /\ log = << [id |-> 1, fn |-> "failure"], [id |-> 2, fn |-> "failure"],
              [id |-> 3, fn |-> "success"] >>
  /\ responses[3].data = JsArray(<< "a", "b" >>)
  /\ pilots = JsArray(<< "a", "b" >>)

\* ----------------------------------------------------------------- C13
\* C13: every GET request, the one of the constructor and those of every
\* later getData, is sent to the one endpoint urls.pilots_json; every request
\* is in flight right after it is issued, so this is stated of those in flight.
C13_SameEndpoint ==
  \A r \in inFlight : r.url = PilotsJsonUrl

\* the constructor's request has settled and its callback has run; two later
\* requests, issued while page 2 may be shown, are in flight together
C13_Witness ==
  /\ httpGets = 3
  /\ currentPage = JsNumber(2)
  /\ Len(log) = 1
  /\ InFlightIds = { 2, 3 }
  /\ << 2, 3 >> \in overlap

\* ----------------------------------------------------------------- C14
\* no request is in flight and no callback is about to run
Quiescent == inFlight = {} /\ delivered = NoResponse

\* C14: when the transport settles every request (getData is invoked finitely
\* often), the controller ends up quiescent for good, and whenever it is
\* quiescent pilots is the payload of the last request whose success
\* callback ran, or the empty sequence when every request failed.
C14_QuiescentResult ==
  /\ <>[]Quiescent
  /\ [](Quiescent =>
          IF LastSuccessIndex = 0
            THEN pilots = JsArray(<< >>)
            ELSE pilots = responses[log[LastSuccessIndex].id].data)

====
